---- MODULE Spec2Model ----
(***************************************************************************)
(* Payment lifecycle client of DEBOXE - ECLIPSE                            *)
(* (src/src/services/amploPayService.ts, class AmploPayService).           *)
(*                                                                         *)
(* The service is a singleton holding two maps, payments and               *)
(* statusCallbacks.  Its asynchronous methods (createPayment,              *)
(* getPaymentStatus) run on the browser's event loop: the code between two *)
(* awaits is one atomic step, and several calls may be suspended at the    *)
(* same time.  Every call occupies one slot of `calls`, whose pc field is  *)
(* the await the call is suspended at.  The gateway and the network are    *)
(* the environment: they choose the HTTP status, the response body and     *)
(* the way an attempt fails.                                               *)
(***************************************************************************)
EXTENDS Integers, Sequences, FiniteSets, TLC

(* ------------------------------ bounds --------------------------------- *)
\* A run is bounded by what its environment does: the asynchronous calls that
\* are made, the fetch attempts the network fails, and the synchronous API
\* invocations (onStatusUpdate, processWebhook).  A run stays within one of
\* the Budgets below.
MaxNetFailures == 4
MaxSync == 3
MaxTicks == 2
\* the checkouts of the page in a run
MaxCheckouts == 2
\* the clicks on the + and - buttons of the tickets in a run
MaxClicks == 3

(* ------------------------- program constants --------------------------- *)
maxRetries == 3
retryDelay == 1000

(* --------------------------- value domains ----------------------------- *)
\* ids in the order the gateway issues them
IdSeq == <<"p1", "p2">>
Ids == {IdSeq[k] : k \in 1..Len(IdSeq)}
\* slots for the asynchronous calls, in the order they are taken
CallSeq == <<"c1", "c2", "c3">>
Calls == {CallSeq[k] : k \in 1..Len(CallSeq)}
\* slots for the polling loops startPaymentPolling sets up
LoopSeq == <<"l1", "l2">>
Loops == {LoopSeq[k] : k \in 1..Len(LoopSeq)}
\* the callbacks a caller may register
Listeners == {"f", "g"}
Statuses == {"pending", "paid", "failed", "expired"}
\* the statuses a poll tick stops at
Terminal == {"paid", "failed", "expired"}
HttpStatuses == {200, 401, 403, 404, 500}
\* how one fetch attempt can reject: the 15 s abort, or a TypeError whose
\* message mentions CORS, mentions fetch, or mentions neither
FetchFailures == {"AbortError", "CORS", "fetch", "other"}
\* what createPayment is called with: amount, description, tickets
Requests ==
  { [amount |-> 130, description |-> "1 ingresso(s)",
     tickets |-> << [type |-> "VIP", quantity |-> 1, unitPrice |-> 130, totalPrice |-> 130] >>] }

\* the first two of the six tickets on sale, in the key order of
\* ticketCounts, with their prices and the names the selections carry
TicketSeq == <<"vipMeia", "vipInteira">>
TicketTypes == {TicketSeq[k] : k \in 1..Len(TicketSeq)}
ticketPrices == [vipMeia |-> 1, vipInteira |-> 130]
ticketNames == [vipMeia |-> "AREA VIP - MEIA/SOLIDARIA",
                vipInteira |-> "AREA VIP - INTEIRA"]

\* JavaScript null / undefined
NULL == [null |-> TRUE]
NoRequest == [none |-> TRUE]

VARIABLES
  impl,             \* the class of the service instance: "real" is
                    \* AmploPayService, "mock" is MockPaymentService
  apiKey,           \* TRUE iff VITE_AMPLO_PAY_API_KEY is a non-empty string
  payments,         \* Map<string, PaymentData>: a function on the cached ids
  statusCallbacks,  \* Map<string, callback>: a function on the subscribed ids
  calls,            \* the asynchronous calls, one record per slot
  gwIssued,         \* number of payment ids the gateway has issued
  last,             \* history: the latest synchronous API invocation, numbered
  replaced,         \* history: the ids whose callback was replaced by another one
  dispatched,       \* window.dispatchEvent: how many paymentStatusUpdate events
                    \* were dispatched, and the detail of the latest
  loops,            \* the timers of startPaymentPolling, one record per slot
  approvals,        \* the 10 s approval timers of the mock: a function from
                    \* the ids that have one to "pending" or "fired"
  ui,               \* the state of App and of PaymentModal, and their timers
  used              \* what the environment has done so far: the calls, the
                    \* failed attempts, the invocations, the loops, the ticks,
                    \* the checkouts

vars == <<impl, apiKey, payments, statusCallbacks, calls, gwIssued, last, replaced,
          dispatched, loops, approvals, ui, used>>

(* ------------------------------ Map helpers ---------------------------- *)
\* Map.prototype.set
MapSet(m, k, v) == [x \in (DOMAIN m) \cup {k} |-> IF x = k THEN v ELSE m[x]]
\* Map.prototype.get(k) || null
MapGet(m, k) == IF k \in DOMAIN m THEN m[k] ELSE NULL
EmptyMap == [x \in {} |-> NULL]

(* ---------------------------- call records ----------------------------- *)
IdleCall ==
  [op |-> "none", pc |-> "idle", i |-> 0, attempts |-> 0,
   request |-> NoRequest, paymentId |-> "",
   failures |-> 0, firstFail |-> "", caught |-> "", waits |-> << >>,
   status |-> 0, body |-> NULL, result |-> NULL, error |-> "",
   from |-> "", tick |-> 0]
\* op: the method called.  pc: the await the call is suspended at, or
\* "returned", or "threw" when an error reached the caller.  i: the loop
\* variable of fetchWithRetry.  attempts: the fetch calls made.  failures: the
\* attempts that rejected; firstFail and caught: how the first and the latest
\* of them rejected.  waits: the delays taken.  status: the HTTP status of the
\* response.  body: the body read.  result: the value returned.  error: the
\* error thrown inside the call.  from: the caller that awaits the call, a
\* polling loop, "app" for handleAdvance of the page, or "" for any other
\* caller; tick: the number of the tick of that loop.

\* the slot the next asynchronous call takes: the first one never used
FreeSlot(c) ==
  \E k \in 1..Len(CallSeq) :
    /\ c = CallSeq[k]
    /\ calls[c].op = "none"
    /\ \A j \in 1..(k - 1) : calls[CallSeq[j]].op # "none"

\* a polling loop not yet set up
NoLoop == [id |-> "", interval |-> "none", ceiling |-> "none", ticks |-> 0,
           first |-> "", updates |-> 0]
\* interval: the setInterval timer, "set" or "cleared".  ceiling: the 20 min
\* setTimeout, "pending" or "fired".  ticks: the ticks started.  first: what
\* the first tick got from getPaymentStatus, a status, "null" or "error".
\* updates: the updatePaymentStatus invocations made by the ticks.

\* the slot the next polling loop takes
FreeLoop(l) ==
  \E k \in 1..Len(LoopSeq) :
    /\ l = LoopSeq[k]
    /\ loops[l].interval = "none"
    /\ \A j \in 1..(k - 1) : loops[LoopSeq[j]].interval # "none"

\* the budgets of a run: a network that fails often and no synchronous
\* invocation, two calls with one failure and one invocation, one call
\* on a reliable network and many invocations, or, on a reliable network, a
\* creation and a polling loop with one tick and one invocation, or with
\* several ticks, or a checkout of the page, after some clicks on the
\* tickets, on a reliable network with one invocation and one tick, or
\* several checkouts of the page after one click, with one invocation
Budgets ==
  { [calls |-> 2, failures |-> MaxNetFailures, sync |-> 0, loops |-> 0, ticks |-> 0, app |-> 0, clicks |-> 0],
    [calls |-> 2, failures |-> 1, sync |-> 1, loops |-> 0, ticks |-> 0, app |-> 0, clicks |-> 0],
    [calls |-> 1, failures |-> 0, sync |-> MaxSync, loops |-> 0, ticks |-> 0, app |-> 0, clicks |-> 0],
    [calls |-> 1, failures |-> 0, sync |-> 1, loops |-> 1, ticks |-> 1, app |-> 0, clicks |-> 0],
    [calls |-> 1, failures |-> 0, sync |-> 0, loops |-> 1, ticks |-> MaxTicks, app |-> 0, clicks |-> 0],
    [calls |-> 0, failures |-> 0, sync |-> 1, loops |-> 0, ticks |-> 1,
     app |-> MaxCheckouts - 1, clicks |-> MaxClicks],
    [calls |-> 0, failures |-> 0, sync |-> 1, loops |-> 0, ticks |-> 0,
     app |-> MaxCheckouts, clicks |-> 1] }

\* the usages <<calls, failures, invocations, loops, ticks, checkouts,
\* clicks>> within a budget
Allowed ==
  { u \in (0..Len(CallSeq)) \X (0..MaxNetFailures) \X (0..MaxSync)
          \X (0..Len(LoopSeq)) \X (0..MaxTicks) \X (0..MaxCheckouts)
          \X (0..MaxClicks) :
      \E b \in Budgets :
        /\ u[1] <= b.calls /\ u[2] <= b.failures /\ u[3] <= b.sync
        /\ u[4] <= b.loops /\ u[5] <= b.ticks /\ u[6] <= b.app
        /\ u[7] <= b.clicks }

\* the environment does dc more calls, df more failures, ds more
\* invocations, dl more polling loops, dt more ticks and da more checkouts,
\* within a budget.  Nothing is handled before React has rendered the
\* latest state of the page and run the effects.
Take(dc, df, ds, dl, dt, da) ==
  /\ ~ui.dirty
  /\ used' = << used[1] + dc, used[2] + df, used[3] + ds, used[4] + dl, used[5] + dt,
                used[6] + da, used[7] >>
  /\ used' \in Allowed
\* the user clicks once more on a ticket button
Click ==
  /\ ~ui.dirty
  /\ used' = [used EXCEPT ![7] = @ + 1]
  /\ used' \in Allowed
\* a step that is not the environment's choice
Free == ~ui.dirty /\ used' = used

\* no synchronous invocation yet.  n numbers the invocations; via is the
\* caller of an updatePaymentStatus ("webhook", "poll" or "timer"); called is
\* the sequence of callbacks the invocation invoked; before is the status
\* the invocation found cached, "" if it found no record; repeat says that
\* the invocation before it was the same one, and prevCalled and prevVia are
\* what that one invoked and its caller
NoEvent == [n |-> 0, op |-> "none", paymentId |-> "", arg |-> "", via |-> "",
            called |-> << >>, before |-> "", repeat |-> FALSE,
            prevCalled |-> << >>, prevVia |-> ""]

(* ------------------------- App and PaymentModal ------------------------ *)
\* the page as mounted: no checkout running, the modal closed.  processing
\* is isProcessingPayment; isOpen and paymentData are the state paymentModal;
\* alias says that paymentData is the very object the service has cached,
\* whose status the service assigns in place; dirty says that App has a new
\* state and the effects of PaymentModal have not run for it yet; countdown
\* is the 1 s interval of the expiry effect; due says that expiresAt of the
\* payment shown is less than 1 s ahead, or past; expiredCalls counts the
\* onPaymentUpdate('expired') made by updateTimer since the payment shown
\* was last set by anything else; alerted is the message of the alert
NoTickets == [t \in TicketTypes |-> 0]
NoUi == [processing |-> FALSE, isOpen |-> FALSE, paymentData |-> NULL,
         alias |-> FALSE, dirty |-> FALSE, countdown |-> FALSE, due |-> FALSE,
         expiredCalls |-> 0, alerted |-> "", ticketCounts |-> NoTickets]

\* paymentData.status as the modal reads it
UiStatus(u, cache) ==
  IF u.alias /\ u.paymentData.id \in DOMAIN cache
  THEN cache[u.paymentData.id].status
  ELSE u.paymentData.status

\* handlePaymentUpdate(status) of App, called from a render that had a
\* payment: the payment of the current state is copied with the status
handlePaymentUpdate(u, status) ==
  IF u.paymentData = NULL THEN u
  ELSE [u EXCEPT !.paymentData = [u.paymentData EXCEPT !.status = status],
                 !.alias = FALSE, !.dirty = TRUE]

\* what updatePaymentStatus(paymentId, status) does to the page: the callback
\* the modal registered calls onPaymentUpdate(status), and the listener of
\* paymentStatusUpdate does so when the event is about the payment shown
UiAfterUpdate(u, paymentId, status, called) ==
  LET byCallback == \E k \in 1..Len(called) : called[k] = "modal"
      byEvent == u.paymentData # NULL /\ u.paymentData.id = paymentId
  IN  IF byCallback \/ byEvent
      THEN [handlePaymentUpdate(u, status) EXCEPT !.expiredCalls = 0]
      ELSE u

Init ==
  /\ impl \in {"real", "mock"}
  /\ apiKey \in (IF impl = "real" THEN BOOLEAN ELSE {FALSE})
  /\ payments = EmptyMap
  /\ statusCallbacks = EmptyMap
  /\ calls = [c \in Calls |-> IdleCall]
  /\ gwIssued = 0
  /\ last = NoEvent
  /\ replaced = {}
  /\ dispatched = [n |-> 0, detail |-> NULL]
  /\ loops = [l \in Loops |-> NoLoop]
  /\ approvals = EmptyMap
  /\ ui = NoUi
  /\ used = <<0, 0, 0, 0, 0, 0, 0>>

(* --------------------------- fetchWithRetry ---------------------------- *)
\* response.ok
Ok(status) == status >= 200 /\ status <= 299

\* a bug: the delay grows with the loop variable, not with the attempt number
RetryWaitFromZero(i) == retryDelay * i

\* the delay before the attempt that follows failed attempt i (0-based)
RetryWait(i) == retryDelay * (i + 1)

\* the error fetchWithRetry throws when the last attempt rejected with k
TranslateFailure(k) ==
  CASE k = "AbortError" -> "Timeout"
    [] k = "CORS"       -> "Erro de CORS"
    [] k = "fetch"      -> "Erro de conexao"
    [] OTHER            -> "TypeError"

\* a bug: the first failure is kept and surfaced
SurfacedFirst(firstFail, caught) == TranslateFailure(firstFail)

\* what fetchWithRetry surfaces when the first attempt failed as firstFail
\* and the last one as caught
SurfacedError(firstFail, caught) == TranslateFailure(caught)

\* the error kind of the specification's taxonomy a thrown error stands for
ErrorKind(e) ==
  CASE e = "API Key nao configurada"    -> "ConfigurationError"
    [] e = "API Key invalida"           -> "AuthError"
    [] e = "Acesso negado"              -> "PermissionError"
    [] e = "Erro interno da Amplo Pay"  -> "GatewayError"
    [] e = "Erro ao processar pagamento" -> "GatewayError"
    [] e = "SyntaxError"                -> "GatewayError"
    [] e = "Timeout"                    -> "TimeoutError"
    [] e = "Erro de CORS"               -> "NetworkError"
    [] e = "Erro de conexao"            -> "NetworkError"
    [] e = "TypeError"                  -> "NetworkError"
    [] e = "Erro ao gerar QR Code"      -> "QRCodeError"
    [] OTHER                            -> "none"

\* a bug: 403 is reported like 401
ErrorForStatusForbiddenAsAuth(status) ==
  IF status = 401 \/ status = 403 THEN "API Key invalida"
  ELSE IF status >= 500 THEN "Erro interno da Amplo Pay"
  ELSE "Erro ao processar pagamento"

\* the error createPayment throws for a response that is not ok
ErrorForStatus(status) ==
  IF status = 401 THEN "API Key invalida"
  ELSE IF status = 403 THEN "Acesso negado"
  ELSE IF status = 0 THEN "Erro de CORS"
  ELSE IF status >= 500 THEN "Erro interno da Amplo Pay"
  ELSE "Erro ao processar pagamento"

\* a call starts its first attempt
StartFetch(call) == [call EXCEPT !.pc = "fetch", !.i = 0, !.attempts = 1]

(* ------------------- onStatusUpdate, updatePaymentStatus --------------- *)
\* the variables no method of the service assigns
fixed == <<impl, apiKey>>

\* a bug: a callback already registered for the id is kept
onStatusUpdateKeepsFirst(paymentId, callback) ==
  /\ statusCallbacks' = IF paymentId \in DOMAIN statusCallbacks THEN statusCallbacks
                        ELSE MapSet(statusCallbacks, paymentId, callback)
  /\ last' = [NoEvent EXCEPT !.n = last.n + 1,
                             !.op = "onStatusUpdate", !.paymentId = paymentId,
                             !.arg = callback]
  /\ replaced' = IF paymentId \in DOMAIN statusCallbacks
                    /\ statusCallbacks[paymentId] # callback
                 THEN replaced \cup {paymentId} ELSE replaced
  /\ UNCHANGED <<fixed, payments, calls, gwIssued, dispatched, loops, approvals, ui>>

onStatusUpdate(paymentId, callback) ==
  /\ statusCallbacks' = MapSet(statusCallbacks, paymentId, callback)
  /\ last' = [NoEvent EXCEPT !.n = last.n + 1,
                             !.op = "onStatusUpdate", !.paymentId = paymentId,
                             !.arg = callback]
  /\ replaced' = IF paymentId \in DOMAIN statusCallbacks
                    /\ statusCallbacks[paymentId] # callback
                 THEN replaced \cup {paymentId} ELSE replaced
  /\ UNCHANGED <<fixed, payments, calls, gwIssued, dispatched, loops, approvals, ui>>

\* the callbacks updatePaymentStatus invokes, in order, each with the status
Invoked(callbacks, paymentId) ==
  IF paymentId \in DOMAIN callbacks THEN << callbacks[paymentId] >> ELSE << >>

\* a bug: a record is created for an id that has none
UpdatedCacheUpsert(cache, paymentId, status) ==
  IF paymentId \in DOMAIN cache
  THEN MapSet(cache, paymentId, [cache[paymentId] EXCEPT !.status = status])
  ELSE MapSet(cache, paymentId, [id |-> paymentId, status |-> status])

\* a bug: a terminal status is never overwritten
UpdatedCacheKeepsTerminal(cache, paymentId, status) ==
  IF paymentId \in DOMAIN cache /\ cache[paymentId].status \notin Terminal
  THEN MapSet(cache, paymentId, [cache[paymentId] EXCEPT !.status = status])
  ELSE cache

\* a bug: a record that already has the status is dropped from the cache
UpdatedCacheEvictsDuplicate(cache, paymentId, status) ==
  IF paymentId \in DOMAIN cache
  THEN IF cache[paymentId].status = status
       THEN [x \in (DOMAIN cache) \ {paymentId} |-> cache[x]]
       ELSE MapSet(cache, paymentId, [cache[paymentId] EXCEPT !.status = status])
  ELSE cache

\* the cache after updatePaymentStatus
UpdatedCache(cache, paymentId, status) ==
  IF paymentId \in DOMAIN cache
  THEN MapSet(cache, paymentId, [cache[paymentId] EXCEPT !.status = status])
  ELSE cache

\* a bug: the event is dispatched only for an id that has a callback
DispatchEventIfSubscribed(d, paymentId, status) ==
  IF paymentId \in DOMAIN statusCallbacks
  THEN [n |-> d.n + 1, detail |-> [paymentId |-> paymentId, status |-> status]]
  ELSE d

\* window.dispatchEvent(new CustomEvent('paymentStatusUpdate', {detail}))
DispatchEvent(d, paymentId, status) ==
  [n |-> d.n + 1, detail |-> [paymentId |-> paymentId, status |-> status]]

\* the status cached for id, "" if there is no record
StatusOf(cache, id) == IF id \in DOMAIN cache THEN cache[id].status ELSE ""

\* the record of an updatePaymentStatus(paymentId, status) made by `via`
\* that invoked the callbacks `called` and found the status `before`
UpdateEvent(paymentId, status, via, called, before) ==
  LET again == /\ last.op = "updatePaymentStatus"
               /\ last.paymentId = paymentId
               /\ last.arg = status
  IN  [n |-> last.n + 1,
       op |-> "updatePaymentStatus", paymentId |-> paymentId, arg |-> status,
       via |-> via, called |-> called, before |-> before, repeat |-> again,
       prevCalled |-> IF again THEN last.called ELSE << >>,
       prevVia |-> IF again THEN last.via ELSE ""]

\* a bug: an update that repeats the cached status is taken for a duplicate
\* and the callback is not invoked
ApplyStatusOnChange(cache, paymentId, status, via) ==
  /\ last' = UpdateEvent(paymentId, status, via,
               IF paymentId \in DOMAIN cache /\ cache[paymentId].status = status
               THEN << >> ELSE Invoked(statusCallbacks, paymentId),
               StatusOf(cache, paymentId))
  /\ payments' = UpdatedCache(cache, paymentId, status)
  /\ dispatched' = DispatchEvent(dispatched, paymentId, status)
  /\ ui' = UiAfterUpdate(ui, paymentId, status, Invoked(statusCallbacks, paymentId))

\* the body of updatePaymentStatus(paymentId, status), run on the cache
\* `cache` by the caller `via`: the callback, the cached record, the event
ApplyStatus(cache, paymentId, status, via) ==
  /\ last' = UpdateEvent(paymentId, status, via, Invoked(statusCallbacks, paymentId),
                          StatusOf(cache, paymentId))
  /\ payments' = UpdatedCache(cache, paymentId, status)
  /\ dispatched' = DispatchEvent(dispatched, paymentId, status)
  /\ ui' = UiAfterUpdate(ui, paymentId, status, Invoked(statusCallbacks, paymentId))

updatePaymentStatus(paymentId, status, via) ==
  /\ ApplyStatus(payments, paymentId, status, via)
  /\ UNCHANGED <<fixed, statusCallbacks, calls, gwIssued, replaced, loops, approvals>>

\* the webhook handler hands an event of the gateway to the service
processWebhook(paymentId, status) ==
  updatePaymentStatus(paymentId, status, "webhook")

(* ------------------------ the caller of a call resumes ----------------- *)
\* a tick of startPaymentPolling stops at this outcome of getPaymentStatus
PollDetects(call) ==
  /\ call.from \in Loops
  /\ call.pc = "returned"
  /\ call.result # NULL
  /\ call.result.status \in Terminal

\* what the caller of a finished call got
Observed(call) ==
  IF call.pc = "threw" THEN "error"
  ELSE IF call.result = NULL THEN "null" ELSE call.result.status

\* handleAdvance resumes after await createPixPayment: the modal is opened
\* on the record returned, or the message of the error is alerted; then
\* isProcessingPayment is reset
AppResumes(u, call) ==
  IF call.pc = "returned"
  THEN [u EXCEPT !.processing = FALSE, !.isOpen = TRUE,
                 !.paymentData = call.result, !.alias = TRUE, !.dirty = TRUE,
                 !.due = FALSE, !.expiredCalls = 0]
  ELSE [u EXCEPT !.processing = FALSE, !.alerted = call.error,
                 !.dirty = (u.paymentData # NULL)]

\* The call in slot c becomes newCall, the cache being `cache` and the loops
\* `lp`.  When the call has returned or thrown, the code awaiting it resumes
\* in the same turn of the event loop: a tick of startPaymentPolling that
\* sees a terminal status clears its interval and calls updatePaymentStatus,
\* and handleAdvance of the page, whose state is u, opens the modal or alerts.
Resume(c, newCall, cache, lp, u) ==
  LET call == newCall
      l == call.from
      done == call.pc \in {"returned", "threw"}
      noted == IF done /\ l \in Loops /\ call.tick = 1
               THEN [lp EXCEPT ![l].first = Observed(call)] ELSE lp
  IN
  /\ calls' = [calls EXCEPT ![c] = call]
  /\ IF l \in Loops
     THEN IF PollDetects(call)
          THEN /\ loops' = [noted EXCEPT ![l].interval = "cleared",
                                         ![l].updates = @ + 1]
               /\ ApplyStatus(cache, call.paymentId, call.result.status, "poll")
          ELSE /\ loops' = noted
               /\ payments' = cache
               /\ ui' = u
               /\ UNCHANGED <<last, dispatched>>
     ELSE /\ payments' = cache
          /\ ui' = IF l = "app" /\ done THEN AppResumes(u, call) ELSE u
          /\ UNCHANGED <<last, dispatched, loops>>

Advance(c, newCall, cache) == Resume(c, newCall, cache, loops, ui)

(* ----------------------------- createPayment --------------------------- *)
\* a bug: the request is sent before the credential is looked at
CreatePaymentCallUnchecked(c, req) ==
  /\ FreeSlot(c)
  /\ Advance(c, StartFetch([IdleCall EXCEPT !.op = "createPayment", !.request = req]),
             payments)
  /\ UNCHANGED <<fixed, statusCallbacks, gwIssued, replaced, approvals>>

\* the first step of createPayment(request) called by `from`
CreateCallOf(req, from) ==
  LET call == [IdleCall EXCEPT !.op = "createPayment", !.request = req,
                               !.from = from]
  IN  IF ~apiKey
      THEN [call EXCEPT !.pc = "threw", !.error = "API Key nao configurada"]
      ELSE StartFetch(call)

\* createPayment(request) is called: the credential check, then the request
\* is built and the first attempt is sent
CreatePaymentCall(c, req) ==
  /\ FreeSlot(c)
  /\ Advance(c, CreateCallOf(req, ""), payments)
  /\ UNCHANGED <<fixed, statusCallbacks, gwIssued, replaced, approvals>>

\* the first step of getPaymentStatus(paymentId) called by `from`
StatusCallOf(id, from, tick) ==
  LET call == [IdleCall EXCEPT !.op = "getPaymentStatus", !.paymentId = id,
                               !.from = from, !.tick = tick]
  IN  IF ~apiKey
      THEN [call EXCEPT !.pc = "threw", !.error = "API Key nao configurada"]
      ELSE StartFetch(call)

\* getPaymentStatus(paymentId) is called
GetPaymentStatusCall(c, id) ==
  /\ FreeSlot(c)
  /\ Advance(c, StatusCallOf(id, "", 0), payments)
  /\ UNCHANGED <<fixed, statusCallbacks, gwIssued, replaced, approvals>>

\* a bug: a failed query answers null although a record is cached
FallbackNull(cache, id) == NULL

\* what getPaymentStatus returns when the query failed
Fallback(cache, id) == MapGet(cache, id)

\* an attempt rejects with failure k (the abort after 15 s, or a transport error)
FetchRejects(c, k) ==
  LET call == calls[c]
      first == IF call.i = 0 THEN k ELSE call.firstFail
      failed == [call EXCEPT !.failures = call.failures + 1,
                             !.firstFail = first, !.caught = k]
  IN
  /\ call.pc = "fetch"
  /\ Advance(c,
       IF call.i = maxRetries
       THEN \* the last attempt: fetchWithRetry throws
            IF call.op = "createPayment"
            THEN [failed EXCEPT !.pc = "threw", !.error = SurfacedError(first, k)]
            ELSE \* getPaymentStatus catches it and falls back
                 [failed EXCEPT !.pc = "returned", !.error = SurfacedError(first, k),
                                !.result = Fallback(payments, call.paymentId)]
       ELSE [failed EXCEPT !.pc = "delay",
                           !.waits = Append(call.waits, RetryWait(call.i))],
       payments)
  /\ UNCHANGED <<fixed, statusCallbacks, gwIssued, replaced, approvals>>

\* the delay before the next attempt is over
DelayElapses(c) ==
  LET call == calls[c] IN
  /\ call.pc = "delay"
  /\ Advance(c, [call EXCEPT !.pc = "fetch", !.i = call.i + 1,
                             !.attempts = call.attempts + 1, !.caught = ""],
             payments)
  /\ UNCHANGED <<fixed, statusCallbacks, gwIssued, replaced, approvals>>

\* a bug: a 5xx response is taken for a failed attempt and retried
FetchResolvesRetriesServerError(c, status) ==
  LET call == calls[c] IN
  /\ call.pc = "fetch"
  /\ Advance(c,
       IF Ok(status)
       THEN [call EXCEPT !.status = status, !.pc = "body"]
       ELSE IF status >= 500 /\ call.i < maxRetries
       THEN [call EXCEPT !.status = status, !.pc = "delay",
                         !.waits = Append(call.waits, RetryWait(call.i))]
       ELSE IF call.op = "createPayment"
       THEN [call EXCEPT !.status = status, !.pc = "errorBody"]
       ELSE [call EXCEPT !.status = status, !.pc = "returned",
                         !.result = Fallback(payments, call.paymentId)],
       payments)
  /\ UNCHANGED <<fixed, statusCallbacks, gwIssued, replaced, approvals>>

\* an attempt resolves with an HTTP response of the given status
FetchResolves(c, status) ==
  LET call == calls[c] IN
  /\ call.pc = "fetch"
  /\ Advance(c,
       IF Ok(status)
       THEN [call EXCEPT !.status = status, !.pc = "body"]
       ELSE IF call.op = "createPayment"
       THEN [call EXCEPT !.status = status, !.pc = "errorBody"]
       ELSE [call EXCEPT !.status = status, !.pc = "returned",
                         !.result = Fallback(payments, call.paymentId)],
       payments)
  /\ UNCHANGED <<fixed, statusCallbacks, gwIssued, replaced, approvals>>

\* createPayment has read (or failed to read) the body of an error response
ErrorBodyRead(c) ==
  LET call == calls[c] IN
  /\ call.pc = "errorBody"
  /\ Advance(c, [call EXCEPT !.pc = "threw", !.error = ErrorForStatus(call.status)],
             payments)
  /\ UNCHANGED <<fixed, statusCallbacks, gwIssued, replaced, approvals>>

\* QRCode.toDataURL(pixCode): the image is a function of the code alone
QRImage(pixCode) == <<"qr", pixCode>>
\* new Date(s)
NewDate(s) == <<"Date", s>>

\* the body of the gateway's answer to POST /payments: the next id, the
\* amount echoed, a Pix code, and a QR url or none ("").  The gateway issues
\* every id once; the client takes the id as it comes and checks nothing.
CreateBody(call, qrUrl) ==
  LET id == IdSeq[gwIssued + 1] IN
  [id |-> id, amount |-> call.request.amount, status |-> "pending",
   pix_code |-> <<"pix", id>>, qr_code_url |-> qrUrl,
   created_at |-> <<"created", id>>, expires_at |-> <<"expires", id>>]

\* a bug: the record is identified by what was requested
PaymentDataOfKeyedByRequest(request, data, qrCodeImage) ==
  [id |-> request.description, amount |-> data.amount,
   description |-> request.description,
   tickets |-> request.tickets, status |-> data.status, pixCode |-> data.pix_code,
   qrCodeImage |-> qrCodeImage,
   createdAt |-> NewDate(data.created_at), expiresAt |-> NewDate(data.expires_at)]

\* the PaymentData createPayment builds from the response and the request
PaymentDataOf(request, data, qrCodeImage) ==
  [id |-> data.id, amount |-> data.amount, description |-> request.description,
   tickets |-> request.tickets, status |-> data.status, pixCode |-> data.pix_code,
   qrCodeImage |-> qrCodeImage,
   createdAt |-> NewDate(data.created_at), expiresAt |-> NewDate(data.expires_at)]

\* createPayment stores the record and returns it
StoreAndReturn(c, paymentData) ==
  Advance(c, [calls[c] EXCEPT !.pc = "returned", !.result = paymentData],
          MapSet(payments, paymentData.id, paymentData))

\* createPayment has read the body of a 2xx response
CreateBodyResolves(c, qrUrl) ==
  LET call == calls[c]
      data == CreateBody(call, qrUrl)
  IN
  /\ call.pc = "body"
  /\ call.op = "createPayment"
  /\ gwIssued < Len(IdSeq)
  /\ gwIssued' = gwIssued + 1
  /\ IF data.qr_code_url = "" /\ data.pix_code # ""
     THEN \* await generateQRCodeImage(pix_code)
          Advance(c, [call EXCEPT !.pc = "qr", !.body = data], payments)
     ELSE StoreAndReturn(c, PaymentDataOf(call.request, data, data.qr_code_url))
  /\ UNCHANGED <<fixed, statusCallbacks, replaced, approvals>>

\* QRCode.toDataURL resolves
QRCodeResolves(c) ==
  LET call == calls[c] IN
  /\ call.pc = "qr"
  /\ call.op = "createPayment"
  /\ StoreAndReturn(c, PaymentDataOf(call.request, call.body, QRImage(call.body.pix_code)))
  /\ UNCHANGED <<fixed, statusCallbacks, gwIssued, replaced, approvals>>

\* a bug: the record is cached without its image before the error is thrown
QRCodeRejectsPartial(c) ==
  LET call == calls[c] IN
  /\ call.pc = "qr"
  /\ Advance(c, [call EXCEPT !.pc = "threw", !.error = "Erro ao gerar QR Code"],
             MapSet(payments, call.body.id, PaymentDataOf(call.request, call.body, "")))
  /\ UNCHANGED <<fixed, statusCallbacks, gwIssued, replaced, approvals>>

\* QRCode.toDataURL rejects: generateQRCodeImage throws
QRCodeRejects(c) ==
  LET call == calls[c] IN
  /\ call.pc = "qr"
  /\ Advance(c, [call EXCEPT !.pc = "threw", !.error = "Erro ao gerar QR Code"],
             payments)
  /\ UNCHANGED <<fixed, statusCallbacks, gwIssued, replaced, approvals>>

(* --------------------------- getPaymentStatus -------------------------- *)
\* a bug: the status the gateway returned is dropped
MergeStatusKeeps(payment, status) == payment

\* a bug: a terminal status is not replaced by what the gateway returned
MergeStatusUnlessTerminal(payment, status) ==
  IF payment.status \in Terminal THEN payment ELSE [payment EXCEPT !.status = status]

\* the record with the status the gateway returned merged in
MergeStatus(payment, status) == [payment EXCEPT !.status = status]

\* getPaymentStatus has read the body of a 2xx response; the gateway says status
\* a bug: an answer about an id that has no record creates one
StatusBodyResolvesInserts(c, status) ==
  LET call == calls[c]
      id == call.paymentId
      existingPayment == IF id \in DOMAIN payments
                         THEN MergeStatus(payments[id], status)
                         ELSE [id |-> id, status |-> status]
  IN
  /\ call.pc = "body"
  /\ call.op = "getPaymentStatus"
  /\ Advance(c, [call EXCEPT !.body = [status |-> status], !.pc = "returned",
                             !.result = existingPayment],
             MapSet(payments, id, existingPayment))
  /\ UNCHANGED <<fixed, statusCallbacks, gwIssued, replaced, approvals>>

StatusBodyResolves(c, status) ==
  LET call == calls[c]
      id == call.paymentId
  IN
  /\ call.pc = "body"
  /\ call.op = "getPaymentStatus"
  /\ IF id \in DOMAIN payments
     THEN LET existingPayment == MergeStatus(payments[id], status) IN
          Advance(c, [call EXCEPT !.body = [status |-> status], !.pc = "returned",
                                  !.result = existingPayment],
                  MapSet(payments, id, existingPayment))
     ELSE Advance(c, [call EXCEPT !.body = [status |-> status], !.pc = "returned",
                                  !.result = NULL],
                  payments)
  /\ UNCHANGED <<fixed, statusCallbacks, gwIssued, replaced, approvals>>

\* response.json() rejects: the body of a 2xx response is not readable JSON
BodyRejects(c) ==
  LET call == calls[c] IN
  /\ call.pc = "body"
  /\ Advance(c,
       IF call.op = "createPayment"
       THEN [call EXCEPT !.pc = "threw", !.error = "SyntaxError"]
       ELSE \* getPaymentStatus catches it and falls back
            [call EXCEPT !.pc = "returned", !.error = "SyntaxError",
                         !.result = Fallback(payments, call.paymentId)],
       payments)
  /\ UNCHANGED <<fixed, statusCallbacks, gwIssued, replaced, approvals>>

(* --------------------------- startPaymentPolling ----------------------- *)
\* startPaymentPolling(paymentId): setInterval of the tick, setTimeout of the
\* 20 min ceiling
startPaymentPolling(l, paymentId) ==
  /\ FreeLoop(l)
  /\ loops' = [loops EXCEPT ![l] =
       [NoLoop EXCEPT !.id = paymentId, !.interval = "set", !.ceiling = "pending"]]
  /\ UNCHANGED <<fixed, payments, statusCallbacks, calls, gwIssued, last, replaced,
                 dispatched, approvals, ui>>

\* the interval fires: the tick calls getPaymentStatus and awaits it.  The
\* interval does not wait for the tick that is suspended.
PollTick(l, c) ==
  LET n == loops[l].ticks + 1 IN
  /\ loops[l].interval = "set"
  /\ FreeSlot(c)
  /\ Resume(c, StatusCallOf(loops[l].id, l, n), payments,
            [loops EXCEPT ![l].ticks = n], ui)
  /\ UNCHANGED <<fixed, statusCallbacks, gwIssued, replaced, approvals>>

\* a bug: the timeout fires and leaves the interval running
CeilingFiresKeepsInterval(l) ==
  /\ loops[l].ceiling = "pending"
  /\ loops' = [loops EXCEPT ![l].ceiling = "fired"]
  /\ UNCHANGED <<fixed, payments, statusCallbacks, calls, gwIssued, last, replaced,
                 dispatched, approvals, ui>>

\* a bug: the timeout also drops the callback registered for the id
CeilingFiresUnsubscribes(l) ==
  /\ loops[l].ceiling = "pending"
  /\ loops' = [loops EXCEPT ![l].interval = "cleared", ![l].ceiling = "fired"]
  /\ statusCallbacks' =
       [x \in (DOMAIN statusCallbacks) \ {loops[l].id} |-> statusCallbacks[x]]
  /\ UNCHANGED <<fixed, payments, calls, gwIssued, last, replaced,
                 dispatched, approvals, ui>>

\* the 20 min timeout fires: clearInterval
CeilingFires(l) ==
  /\ loops[l].ceiling = "pending"
  /\ loops' = [loops EXCEPT ![l].interval = "cleared", ![l].ceiling = "fired"]
  /\ UNCHANGED <<fixed, payments, statusCallbacks, calls, gwIssued, last, replaced,
                 dispatched, approvals, ui>>

(* ----------------------- the page: App, PaymentModal -------------------- *)
\* the service the checkout of App calls, AmploPayService.getInstance(), and
\* the service PaymentModal imports, the exported amploPayService
CheckoutImpl == "real"
ModalImpl == "real"

\* Math.max(0, n)
Max0(n) == IF n < 0 THEN 0 ELSE n

\* the state ticketCounts after updateTicketCount(ticketType, increment)
updateTicketCount(tc, ticketType, increment) ==
  [tc EXCEPT ![ticketType] = Max0(@ + (IF increment THEN 1 ELSE -1))]

\* the reduce of getTotalTickets over the first k tickets
RECURSIVE TicketsUpTo(_, _)
TicketsUpTo(tc, k) ==
  IF k = 0 THEN 0 ELSE TicketsUpTo(tc, k - 1) + tc[TicketSeq[k]]
getTotalTickets(tc) == TicketsUpTo(tc, Len(TicketSeq))

\* the reduce of getTotalValue over the first k tickets
RECURSIVE ValueUpTo(_, _)
ValueUpTo(tc, k) ==
  IF k = 0 THEN 0
  ELSE ValueUpTo(tc, k - 1) + tc[TicketSeq[k]] * ticketPrices[TicketSeq[k]]
getTotalValue(tc) == ValueUpTo(tc, Len(TicketSeq))

\* a bug: a ticket with no unit selected is listed too
RECURSIVE SelectionsListingAll(_, _)
SelectionsListingAll(tc, k) ==
  IF k = 0 THEN << >>
  ELSE Append(SelectionsListingAll(tc, k - 1),
              [type |-> ticketNames[TicketSeq[k]], quantity |-> tc[TicketSeq[k]],
               unitPrice |-> ticketPrices[TicketSeq[k]],
               totalPrice |-> tc[TicketSeq[k]] * ticketPrices[TicketSeq[k]]])

\* the selections getTicketSelections has pushed after the first k tickets
RECURSIVE SelectionsUpTo(_, _)
SelectionsUpTo(tc, k) ==
  IF k = 0 THEN << >>
  ELSE LET type == TicketSeq[k]
           count == tc[type]
           unitPrice == ticketPrices[type]
       IN IF count > 0
          THEN Append(SelectionsUpTo(tc, k - 1),
                      [type |-> ticketNames[type], quantity |-> count,
                       unitPrice |-> unitPrice, totalPrice |-> count * unitPrice])
          ELSE SelectionsUpTo(tc, k - 1)
getTicketSelections(tc) == SelectionsUpTo(tc, Len(TicketSeq))

\* what handleAdvance passes to createPixPayment
CheckoutRequest(tc) ==
  [amount |-> getTotalValue(tc),
   description |-> ToString(getTotalTickets(tc)) \o " ingresso(s)",
   tickets |-> getTicketSelections(tc)]

\* a click on the + or the - button of a ticket.  The - button of a ticket
\* with no unit is disabled, and the open modal covers the page.
ClickTicket(ticketType, increment) ==
  /\ ~ui.isOpen
  /\ increment \/ ui.ticketCounts[ticketType] > 0
  /\ ui' = [ui EXCEPT !.ticketCounts = updateTicketCount(@, ticketType, increment)]
  /\ UNCHANGED <<fixed, payments, statusCallbacks, calls, gwIssued, last, replaced,
                 dispatched, loops, approvals>>

\* handleAdvance() with tickets selected: isProcessingPayment is set and
\* createPixPayment of the service is called and awaited.  The button is
\* disabled while a checkout is processing, and the open modal covers it.
handleAdvance(c) ==
  /\ impl = CheckoutImpl
  /\ getTotalTickets(ui.ticketCounts) > 0
  /\ ~ui.processing
  /\ ~ui.isOpen
  /\ FreeSlot(c)
  /\ Resume(c, CreateCallOf(CheckoutRequest(ui.ticketCounts), "app"), payments, loops,
            [ui EXCEPT !.processing = TRUE, !.dirty = (ui.paymentData # NULL)])
  /\ UNCHANGED <<fixed, statusCallbacks, gwIssued, replaced, approvals>>

\* closePaymentModal(): the cart is emptied when the payment shown is paid
closePaymentModal ==
  /\ ui.isOpen
  /\ ui' = [ui EXCEPT !.isOpen = FALSE, !.paymentData = NULL, !.alias = FALSE,
                      !.dirty = TRUE, !.due = FALSE, !.expiredCalls = 0,
                      !.ticketCounts = IF UiStatus(ui, payments) = "paid"
                                       THEN NoTickets ELSE @]
  /\ UNCHANGED <<fixed, payments, statusCallbacks, calls, gwIssued, last, replaced,
                 dispatched, loops, approvals>>

\* the slot startPaymentPolling takes in lp, or "" when every slot is taken
NextLoop(lp) ==
  IF \E l \in Loops : lp[l].interval = "none"
  THEN LoopSeq[CHOOSE k \in 1..Len(LoopSeq) :
                 /\ lp[LoopSeq[k]].interval = "none"
                 /\ \A j \in 1..(k - 1) : lp[LoopSeq[j]].interval # "none"]
  ELSE ""

\* a bug: the cleanup of the expiry effect leaves its interval running
RunEffectsKeepsCountdown ==
  LET pd == ui.paymentData
      pending == pd # NULL /\ ui.isOpen /\ UiStatus(ui, payments) = "pending"
      l == NextLoop(loops)
  IN
  /\ impl = ModalImpl
  /\ ui.dirty
  /\ IF pending
     THEN /\ statusCallbacks' = MapSet(statusCallbacks, pd.id, "modal")
          /\ last' = [NoEvent EXCEPT !.n = last.n + 1, !.op = "onStatusUpdate",
                                     !.paymentId = pd.id, !.arg = "modal"]
          /\ replaced' = IF pd.id \in DOMAIN statusCallbacks
                            /\ statusCallbacks[pd.id] # "modal"
                         THEN replaced \cup {pd.id} ELSE replaced
          /\ loops' = IF l = "" THEN loops
                      ELSE [loops EXCEPT ![l] =
                              [NoLoop EXCEPT !.id = pd.id, !.interval = "set",
                                             !.ceiling = "pending"]]
     ELSE UNCHANGED <<statusCallbacks, last, replaced, loops>>
  /\ ui' = IF pending /\ ui.due
           THEN [handlePaymentUpdate(ui, "expired") EXCEPT
                   !.countdown = TRUE, !.expiredCalls = @ + 1]
           ELSE [ui EXCEPT !.dirty = FALSE, !.countdown = pending \/ ui.countdown]
  /\ UNCHANGED <<fixed, payments, calls, gwIssued, dispatched, approvals>>

\* React renders App and PaymentModal with the new state and runs the
\* effects of PaymentModal, all of whose dependencies have changed: the
\* cleanups (removeEventListener, clearInterval), then addEventListener;
\* for an open modal on a pending payment onStatusUpdate and
\* startPaymentPolling of the service; for the same, updateTimer() at once
\* and the 1 s interval of updateTimer
RunEffects ==
  LET pd == ui.paymentData
      pending == pd # NULL /\ ui.isOpen /\ UiStatus(ui, payments) = "pending"
      l == NextLoop(loops)
  IN
  /\ impl = ModalImpl
  /\ ui.dirty
  /\ IF pending
     THEN /\ statusCallbacks' = MapSet(statusCallbacks, pd.id, "modal")
          /\ last' = [NoEvent EXCEPT !.n = last.n + 1, !.op = "onStatusUpdate",
                                     !.paymentId = pd.id, !.arg = "modal"]
          /\ replaced' = IF pd.id \in DOMAIN statusCallbacks
                            /\ statusCallbacks[pd.id] # "modal"
                         THEN replaced \cup {pd.id} ELSE replaced
          /\ loops' = IF l = "" THEN loops
                      ELSE [loops EXCEPT ![l] =
                              [NoLoop EXCEPT !.id = pd.id, !.interval = "set",
                                             !.ceiling = "pending"]]
     ELSE UNCHANGED <<statusCallbacks, last, replaced, loops>>
  /\ ui' = IF pending /\ ui.due
           THEN [handlePaymentUpdate(ui, "expired") EXCEPT
                   !.countdown = TRUE, !.expiredCalls = @ + 1]
           ELSE [ui EXCEPT !.dirty = FALSE, !.countdown = pending]
  /\ UNCHANGED <<fixed, payments, calls, gwIssued, dispatched, approvals>>

\* the clock reaches the last second before expiresAt of the payment shown
TimePasses ==
  /\ ui.isOpen
  /\ ui.paymentData # NULL
  /\ ~ui.due
  /\ ui' = [ui EXCEPT !.due = TRUE]
  /\ UNCHANGED <<fixed, payments, statusCallbacks, calls, gwIssued, last, replaced,
                 dispatched, loops, approvals>>

\* the 1 s interval fires updateTimer with no whole second left:
\* onPaymentUpdate('expired').  A tick with time left only sets timeLeft.
CountdownTick ==
  /\ ui.countdown
  /\ ui.due
  /\ ui' = [handlePaymentUpdate(ui, "expired") EXCEPT !.expiredCalls = @ + 1]
  /\ UNCHANGED <<fixed, payments, statusCallbacks, calls, gwIssued, last, replaced,
                 dispatched, loops, approvals>>

(* --------------------------- MockPaymentService ------------------------ *)
\* createPayment(request) of the mock is called: it awaits a delay of 1 s
MockCreatePaymentCall(c, req) ==
  /\ FreeSlot(c)
  /\ Advance(c, [IdleCall EXCEPT !.op = "createPayment", !.request = req,
                                 !.pc = "mockDelay"], payments)
  /\ UNCHANGED <<fixed, statusCallbacks, gwIssued, replaced, approvals>>

\* generateMockPixCode(): a fixed prefix, 32 random characters, a fixed
\* middle and 4 random digits; the random characters are left out
MockPixCode == "00020126580014BR.GOV.BCB.PIX0136"

\* the delay has elapsed: uuidv4() gives an id no payment has, the Pix code
\* is generated, and the call awaits generateQRCodeImage(pixCode)
MockDelayElapses(c) ==
  LET call == calls[c]
      id == IdSeq[gwIssued + 1]
  IN
  /\ call.pc = "mockDelay"
  /\ gwIssued < Len(IdSeq)
  /\ gwIssued' = gwIssued + 1
  /\ Advance(c, [call EXCEPT !.pc = "mockQr", !.paymentId = id], payments)
  /\ UNCHANGED <<fixed, statusCallbacks, replaced, approvals>>

\* the record createPayment of the mock builds
MockPaymentDataOf(request, id, qrCodeImage) ==
  [id |-> id, amount |-> request.amount, description |-> request.description,
   tickets |-> request.tickets, status |-> "pending",
   pixCode |-> MockPixCode, qrCodeImage |-> qrCodeImage,
   createdAt |-> NewDate("now"), expiresAt |-> NewDate("now + 15 min")]

\* a bug: the approval timer is not set
MockQRCodeResolvesNoTimer(c) ==
  LET call == calls[c] IN
  /\ call.pc = "mockQr"
  /\ StoreAndReturn(c, MockPaymentDataOf(call.request, call.paymentId,
                                         QRImage(MockPixCode)))
  /\ UNCHANGED <<fixed, statusCallbacks, gwIssued, replaced, approvals>>

\* QRCode.toDataURL resolves: the record is cached, the 10 s timer is set,
\* the record is returned
MockQRCodeResolves(c) ==
  LET call == calls[c] IN
  /\ call.pc = "mockQr"
  /\ StoreAndReturn(c, MockPaymentDataOf(call.request, call.paymentId,
                                         QRImage(MockPixCode)))
  /\ approvals' = MapSet(approvals, call.paymentId, "pending")
  /\ UNCHANGED <<fixed, statusCallbacks, gwIssued, replaced>>

\* QRCode.toDataURL rejects: generateQRCodeImage throws
MockQRCodeRejects(c) ==
  LET call == calls[c] IN
  /\ call.pc = "mockQr"
  /\ Advance(c, [call EXCEPT !.pc = "threw", !.error = "Erro ao gerar QR Code"],
             payments)
  /\ UNCHANGED <<fixed, statusCallbacks, gwIssued, replaced, approvals>>

\* the 10 s timer of a payment fires: updatePaymentStatus(paymentId, 'paid')
ApprovalFires(id) ==
  /\ id \in DOMAIN approvals
  /\ approvals[id] = "pending"
  /\ ApplyStatus(payments, id, "paid", "timer")
  /\ approvals' = [approvals EXCEPT ![id] = "fired"]
  /\ UNCHANGED <<fixed, statusCallbacks, calls, gwIssued, replaced, loops>>

\* getPaymentStatus(paymentId) of the mock: the cached record, or null
MockGetPaymentStatusCall(c, id) ==
  /\ FreeSlot(c)
  /\ Advance(c, [IdleCall EXCEPT !.op = "getPaymentStatus", !.paymentId = id,
                                 !.pc = "returned", !.result = MapGet(payments, id)],
             payments)
  /\ UNCHANGED <<fixed, statusCallbacks, gwIssued, replaced, approvals>>

\* startPaymentPolling(paymentId) of the mock: a line on the console
MockStartPaymentPolling(paymentId) ==
  UNCHANGED <<fixed, payments, statusCallbacks, calls, gwIssued, last, replaced,
              dispatched, loops, approvals, ui>>

(* ------------------------------ specification -------------------------- *)
\* the steps of createPayment and getPaymentStatus once an attempt has an
\* answer
CallSteps ==
  \/ impl = "real" /\ Take(1, 0, 0, 0, 0, 0)
       /\ \E c \in Calls, req \in Requests : CreatePaymentCall(c, req)
  \/ Free /\ \E c \in Calls, status \in HttpStatuses : FetchResolves(c, status)
  \/ Free /\ \E c \in Calls : ErrorBodyRead(c)
  \/ Free /\ \E c \in Calls, qrUrl \in {"", "url"} : CreateBodyResolves(c, qrUrl)
  \/ Free /\ \E c \in Calls : QRCodeResolves(c)
  \/ Free /\ \E c \in Calls : QRCodeRejects(c)
  \/ Free /\ \E c \in Calls, status \in Statuses : StatusBodyResolves(c, status)
  \/ Free /\ \E c \in Calls : BodyRejects(c)

\* the synchronous methods, called from outside the service
Invocations ==
  \/ Take(0, 0, 1, 0, 0, 0) /\ \E id \in Ids, cb \in Listeners : onStatusUpdate(id, cb)
  \/ Take(0, 0, 1, 0, 0, 0) /\ \E id \in Ids, status \in Statuses : processWebhook(id, status)

\* startPaymentPolling and its timers
Polling ==
  \/ impl = "real" /\ Take(0, 0, 0, 1, 0, 0)
       /\ \E l \in Loops, id \in Ids : startPaymentPolling(l, id)
  \/ Take(0, 0, 0, 0, 1, 0) /\ \E l \in Loops, c \in Calls : PollTick(l, c)
  \/ Free /\ \E l \in Loops : CeilingFires(l)

\* status queries made from outside the service, and attempts that fail
Queries ==
  \/ impl = "real" /\ Take(1, 0, 0, 0, 0, 0)
       /\ \E c \in Calls, id \in Ids : GetPaymentStatusCall(c, id)
  \/ Take(0, 1, 0, 0, 0, 0) /\ \E c \in Calls, k \in FetchFailures : FetchRejects(c, k)
  \/ Free /\ \E c \in Calls : DelayElapses(c)

\* the methods of the mock and its timer
Mock ==
  \/ impl = "mock" /\ Take(1, 0, 0, 0, 0, 0)
       /\ \E c \in Calls, req \in Requests : MockCreatePaymentCall(c, req)
  \/ Free /\ \E c \in Calls : MockDelayElapses(c)
  \/ Free /\ \E c \in Calls : MockQRCodeResolves(c)
  \/ Free /\ \E c \in Calls : MockQRCodeRejects(c)
  \/ Free /\ \E id \in Ids : ApprovalFires(id)
  \/ impl = "mock" /\ Take(1, 0, 0, 0, 0, 0)
       /\ \E c \in Calls, id \in Ids : MockGetPaymentStatusCall(c, id)
  \/ impl = "mock" /\ Take(0, 0, 0, 1, 0, 0)
       /\ \E id \in Ids : MockStartPaymentPolling(id)

\* the runs in which every attempt gets an answer and all status queries
\* are those of the polling loops
PollNext == CallSteps \/ Invocations \/ Polling

\* the page: the user, the clock and the countdown
Page ==
  \/ Click /\ \E t \in TicketTypes, increment \in BOOLEAN : ClickTicket(t, increment)
  \/ Take(0, 0, 0, 0, 0, 1) /\ \E c \in Calls : handleAdvance(c)
  \/ Free /\ closePaymentModal
  \/ Free /\ TimePasses
  \/ Free /\ CountdownTick

\* React renders the page and runs the effects
Render == used' = used /\ RunEffects

Next == PollNext \/ Queries \/ Mock \/ Page \/ Render

Spec == Init /\ [][Next]_vars

\* the runs of the page on a network where every attempt gets an answer, in
\* which React renders and an interval that is set fires
PageNext == PollNext \/ Page \/ Render

PageSpec ==
  /\ Init
  /\ [][PageNext]_vars
  /\ WF_vars(Render)
  /\ WF_vars(Free /\ CountdownTick)

\* the runs of the mock, in which a timer that is pending fires: the 10 s
\* timer of every payment
MockNext == Mock \/ Invocations

MockSpec ==
  /\ Init
  /\ [][MockNext]_vars
  /\ \A id \in Ids : WF_vars(Free /\ ApprovalFires(id))

\* a timer that is pending fires: the 20 min timeout of every polling loop
PollSpec ==
  /\ Init
  /\ [][PollNext]_vars
  /\ \A l \in Loops : WF_vars(Free /\ CeilingFires(l))

(* ------------------------------- claims -------------------------------- *)
\* the createPayment calls, and those that failed
CreateCalls == {c \in Calls : calls[c].op = "createPayment"}
StatusCalls == {c \in Calls : calls[c].op = "getPaymentStatus"}
\* fetchWithRetry gave up: every attempt rejected
Exhausted(c) == calls[c].failures = maxRetries + 1

\* C1: a createPayment call that fails leaves the payment cache as it was: no
\* step of a createPayment call other than the one that returns the record
\* changes the cache, and the payment of a call that threw is not cached.
C1_FailedCreateLeavesCache ==
  /\ [](\A c \in CreateCalls :
          (calls[c].pc = "threw" /\ calls[c].body # NULL)
             => calls[c].body.id \notin DOMAIN payments)
  /\ [][\A c \in Calls :
          (/\ calls'[c] # calls[c]
           /\ calls'[c].op = "createPayment"
           /\ calls'[c].pc # "returned") => payments' = payments]_vars

\* a createPayment call failed at the QR code, after the gateway had created
\* the payment, while the record of another payment stays cached
C1_Witness ==
  \E c \in CreateCalls :
    /\ impl = "real"
    /\ calls[c].pc = "threw"
    /\ calls[c].error = "Erro ao gerar QR Code"
    /\ calls[c].body.id \notin DOMAIN payments
    /\ payments # EmptyMap

\* C2: with no credential configured createPayment of the real client fails
\* with a configuration error and no fetch attempt is ever made for it.
C2_NoCredentialNoRequest ==
  \A c \in CreateCalls :
    impl = "real" /\ ~apiKey
            => /\ calls[c].pc = "threw"
               /\ ErrorKind(calls[c].error) = "ConfigurationError"
               /\ calls[c].attempts = 0

C2_Witness ==
  \E c \in CreateCalls : ~apiKey /\ calls[c].pc = "threw" /\ calls[c].attempts = 0

\* the error kind the specification gives for a response that is not 2xx
KindForStatus(status) ==
  IF status = 401 THEN "AuthError"
  ELSE IF status = 403 THEN "PermissionError"
  ELSE "GatewayError"

\* the createPayment calls the gateway answered with a status that is not 2xx
Refused == {c \in CreateCalls : calls[c].status # 0 /\ ~Ok(calls[c].status)}

\* C3: a createPayment the gateway answers with a non-2xx status fails with
\* AuthError for 401, PermissionError for 403 and GatewayError otherwise, and
\* caches nothing: while every createPayment call made was refused, the cache
\* is empty.
C3_StatusDecidesError ==
  /\ \A c \in Refused :
       calls[c].pc = "threw" => ErrorKind(calls[c].error) = KindForStatus(calls[c].status)
  /\ \A c \in Refused : calls[c].pc \in {"errorBody", "threw"}
  /\ (CreateCalls # {} /\ CreateCalls = Refused) => payments = EmptyMap

C3_Witness ==
  \E c \in Refused, d \in Refused :
    /\ calls[c].pc = "threw" /\ calls[c].status = 403
    /\ ErrorKind(calls[c].error) = "PermissionError"
    /\ calls[d].pc = "threw" /\ calls[d].status = 500
    /\ ErrorKind(calls[d].error) = "GatewayError"
    /\ payments = EmptyMap

Min(a, b) == IF a < b THEN a ELSE b

\* C4: an outbound call makes at most 4 attempts, waits k seconds after its
\* k-th failed attempt for k = 1..3, and does not wait after the 4th.
C4_AttemptsAndBackoff ==
  \A c \in Calls :
    /\ calls[c].attempts <= 4
    /\ calls[c].failures <= calls[c].attempts
    /\ Len(calls[c].waits) = Min(calls[c].failures, 3)
    /\ \A k \in 1..Len(calls[c].waits) : calls[c].waits[k] = k * 1000

\* a creation and a status query, one of which failed 4 times and waited 1 s,
\* 2 s and 3 s
C4_Witness ==
  \E c \in CreateCalls, d \in StatusCalls :
    /\ calls[d].attempts = 4
    /\ calls[d].failures = 4
    /\ calls[d].waits = <<1000, 2000, 3000>>
    /\ calls[d].pc = "returned"
    /\ calls[c].pc = "returned"

\* C5: when every attempt failed, the error is that of the last attempt alone:
\* TimeoutError if it was aborted, NetworkError otherwise, whatever the first
\* attempt failed with.
C5_LastFailureSurfaced ==
  \A c \in Calls :
    Exhausted(c) =>
      /\ calls[c].attempts = 4
      /\ ErrorKind(calls[c].error) =
           (IF calls[c].caught = "AbortError" THEN "TimeoutError" ELSE "NetworkError")
      /\ calls[c].op = "createPayment" => calls[c].pc = "threw"

\* the first attempt hit a transport error, the last one timed out
C5_Witness ==
  \E c \in CreateCalls :
    /\ Exhausted(c)
    /\ calls[c].firstFail = "fetch"
    /\ calls[c].caught = "AbortError"
    /\ calls[c].pc = "threw"
    /\ ErrorKind(calls[c].error) = "TimeoutError"

\* C6 as claimed: getPaymentStatus never lets an error reach its caller.
C6_NeverPropagates == \A c \in StatusCalls : calls[c].pc # "threw"

\* C6, amended: with a credential configured getPaymentStatus never lets an
\* error reach its caller, and a query that fails (a non-2xx answer, every
\* attempt rejected, an unreadable body) returns the record cached for the id
\* at that moment, or null, and leaves the cache alone; with no credential it
\* fails with a configuration error before any fetch attempt.
C6_FallsBackWhenConfigured ==
  /\ [](\A c \in StatusCalls :
          IF apiKey \/ impl = "mock" THEN calls[c].pc # "threw"
          ELSE /\ calls[c].pc = "threw"
               /\ ErrorKind(calls[c].error) = "ConfigurationError"
               /\ calls[c].attempts = 0)
  /\ [][\A c \in Calls :
          (/\ calls'[c].op = "getPaymentStatus"
           /\ calls[c].pc \in {"fetch", "body"}
           /\ calls'[c].pc = "returned"
           /\ calls'[c].body = NULL)
          => /\ calls'[c].result = MapGet(payments, calls'[c].paymentId)
             /\ payments' = payments]_vars

\* every attempt of a status query failed and the cached record came back
C6_Witness ==
  \E c \in StatusCalls :
    /\ Exhausted(c)
    /\ calls[c].pc = "returned"
    /\ calls[c].paymentId \in DOMAIN payments
    /\ calls[c].result = payments[calls[c].paymentId]

NonStatusFields ==
  {"id", "amount", "description", "tickets", "pixCode", "qrCodeImage",
   "createdAt", "expiresAt"}

\* the status queries that read the gateway's answer
Answered == {c \in StatusCalls : calls[c].pc = "returned" /\ calls[c].body # NULL}

\* C7: a successful getPaymentStatus(id) returns the record createPayment
\* inserted for id, every field but status as createPayment returned it, with
\* the status the gateway returned; the cache holds the record it returns.
C7_RoundTrip ==
  /\ [](\A c \in Answered :
          calls[c].result # NULL =>
            /\ calls[c].result.id = calls[c].paymentId
            /\ calls[c].result.status = calls[c].body.status
            /\ \E d \in CreateCalls :
                 /\ calls[d].pc = "returned"
                 /\ \A f \in NonStatusFields : calls[d].result[f] = calls[c].result[f])
  /\ [][\A c \in Calls :
          (/\ calls'[c].op = "getPaymentStatus"
           /\ calls[c].pc = "body"
           /\ calls'[c].pc = "returned"
           /\ calls'[c].body # NULL
           /\ calls'[c].paymentId \in DOMAIN payments)
          => /\ calls'[c].result # NULL
             /\ \A f \in NonStatusFields :
                  calls'[c].result[f] = payments[calls'[c].paymentId][f]
             /\ payments'[calls'[c].paymentId] = calls'[c].result]_vars

\* created as pending, then queried: the gateway says paid
C7_Witness ==
  \E c \in Answered, d \in CreateCalls :
    /\ calls[d].pc = "returned"
    /\ calls[d].result.status = "pending"
    /\ calls[c].result # NULL
    /\ calls[c].result.id = calls[d].result.id
    /\ calls[c].result.status = "paid"
    /\ calls[c].result.qrCodeImage = calls[d].result.qrCodeImage

\* C8: one callback per id.  onStatusUpdate(id, g) makes g the callback of id
\* whatever was registered, and updatePaymentStatus(id, s) invokes the
\* callback registered last for id once, and no other.
C8_OneListenerPerId ==
  /\ last.op = "onStatusUpdate" =>
       /\ last.paymentId \in DOMAIN statusCallbacks
       /\ statusCallbacks[last.paymentId] = last.arg
  /\ last.op = "updatePaymentStatus" =>
       last.called = (IF last.paymentId \in DOMAIN statusCallbacks
                      THEN << statusCallbacks[last.paymentId] >> ELSE << >>)

\* f was registered for p1, then g, then an update of p1 invoked g alone
C8_Witness ==
  /\ last.op = "updatePaymentStatus"
  /\ last.paymentId = "p1"
  /\ "p1" \in replaced
  /\ last.n = 3
  /\ last.called = << "g" >>

\* a step that is the n-th synchronous invocation, an updatePaymentStatus
UpdateStep ==
  last'.n = last.n + 1 /\ last'.op = "updatePaymentStatus"

\* C9: updatePaymentStatus(id, s) sets the status of the record cached for id
\* to s, creates no record, and changes no other record and no other field.
C9_UpdateFrame ==
  [][UpdateStep =>
       /\ DOMAIN payments' = DOMAIN payments
       /\ \A j \in DOMAIN payments :
            /\ \A f \in NonStatusFields : payments'[j][f] = payments[j][f]
            /\ payments'[j].status =
                 (IF j = last'.paymentId THEN last'.arg ELSE payments[j].status)]_vars

\* two records are cached; the latest update made p1 paid and p2 is pending
C9_Witness ==
  /\ last.op = "updatePaymentStatus"
  /\ last.paymentId = "p1"
  /\ last.arg = "paid"
  /\ DOMAIN payments = {"p1", "p2"}
  /\ payments["p1"].status = "paid"
  /\ payments["p2"].status = "pending"

\* C10: updatePaymentStatus(id, s) twice in a row: the cached status is s, the
\* second call changes nothing in a cache that the first one left, and the
\* registered callback is invoked by each call, twice in all.
C10_RepeatedUpdate ==
  /\ []((last.op = "updatePaymentStatus" /\ last.repeat) =>
          /\ last.called = last.prevCalled
          /\ last.called = (IF last.paymentId \in DOMAIN statusCallbacks
                            THEN << statusCallbacks[last.paymentId] >> ELSE << >>))
  /\ [][(UpdateStep /\ last'.repeat) =>
          /\ last'.paymentId \in DOMAIN payments =>
               payments'[last'.paymentId].status = last'.arg
          /\ (/\ last'.paymentId \in DOMAIN payments
              /\ payments[last'.paymentId].status = last'.arg) => payments' = payments]_vars

\* p1 is cached with f registered; paid was applied twice, f invoked each time
C10_Witness ==
  /\ last.op = "updatePaymentStatus"
  /\ last.repeat
  /\ last.paymentId \in DOMAIN payments
  /\ payments[last.paymentId].status = last.arg
  /\ last.arg = "paid"
  /\ last.prevCalled = << "f" >>
  /\ last.called = << "f" >>

\* C11: every updatePaymentStatus(id, s) dispatches exactly one
\* paymentStatusUpdate event whose detail is {id, s}, with or without a
\* callback registered for id and with or without a record cached for id;
\* nothing else dispatches one.
C11_OneBroadcastPerUpdate ==
  [][IF UpdateStep
     THEN /\ dispatched'.n = dispatched.n + 1
          /\ dispatched'.detail = [paymentId |-> last'.paymentId, status |-> last'.arg]
     ELSE dispatched' = dispatched]_vars

\* an update of an id with no callback and no record was broadcast
C11_Witness ==
  /\ last.op = "updatePaymentStatus"
  /\ last.paymentId \notin DOMAIN statusCallbacks
  /\ last.paymentId \notin DOMAIN payments
  /\ dispatched.n >= 1
  /\ dispatched.detail = [paymentId |-> last.paymentId, status |-> last.arg]

\* C12: a polling loop whose first tick gets a terminal status from
\* getPaymentStatus runs that one tick only: one updatePaymentStatus, the
\* interval cleared, no second tick, however long the query of the tick takes.
C12_OneTickWhenTerminal ==
  \A l \in Loops :
    loops[l].first \in Terminal =>
      /\ loops[l].interval = "cleared"
      /\ loops[l].ticks = 1
      /\ loops[l].updates = 1

\* C13: every polling loop stops: the 20 min timeout clears the interval of a
\* loop that no tick has cleared, and once it has fired no tick starts.
C13_CeilingStopsPolling ==
  /\ \A l \in Loops : (loops[l].interval = "set") ~> (loops[l].interval = "cleared")
  /\ [](\A l \in Loops : loops[l].ceiling = "fired" => loops[l].interval = "cleared")
  /\ [][\A l \in Loops : loops[l].interval = "cleared" =>
          /\ loops'[l].interval = "cleared"
          /\ loops'[l].ticks = loops[l].ticks]_vars

\* a loop whose ticks saw no terminal status was stopped by the timeout
C13_Witness ==
  \E l \in Loops :
    /\ loops[l].ceiling = "fired"
    /\ loops[l].interval = "cleared"
    /\ loops[l].ticks = MaxTicks
    /\ loops[l].updates = 0
    /\ loops[l].first = "pending"
    /\ \A c \in Calls : calls[c].from = l => calls[c].pc = "returned"

\* C14: processWebhook(id, "paid") and a poll tick that got paid both call
\* updatePaymentStatus(id, "paid"), in either order: after the second of them
\* the record of id is cached with status paid.
C14_PushAndPollConverge ==
  [][(/\ UpdateStep
      /\ last'.repeat
      /\ last'.arg = "paid"
      /\ {last'.via, last'.prevVia} = {"webhook", "poll"}
      /\ last'.paymentId \in DOMAIN payments)
     => /\ last'.paymentId \in DOMAIN payments'
        /\ payments'[last'.paymentId].status = "paid"]_vars

\* the tick applied paid, then the webhook did, and f heard both
C14_Witness ==
  /\ last.op = "updatePaymentStatus"
  /\ last.repeat
  /\ last.arg = "paid"
  /\ last.prevVia = "poll"
  /\ last.via = "webhook"
  /\ last.paymentId \in DOMAIN payments
  /\ payments[last.paymentId].status = "paid"

\* in this step the status call in slot c reads the gateway's answer
StatusAnswered(c) ==
  /\ calls'[c].op = "getPaymentStatus"
  /\ calls[c].pc = "body"
  /\ calls'[c].pc = "returned"
  /\ calls'[c].body # NULL

\* in this step the createPayment call in slot c returns
CreateReturns(c) ==
  /\ calls'[c].op = "createPayment"
  /\ calls[c].pc # "returned"
  /\ calls'[c].pc = "returned"

\* in this step updatePaymentStatus(id, .) runs
UpdateOf(id) == UpdateStep /\ last'.paymentId = id

\* C15 as claimed: whenever the latest invocation is an updatePaymentStatus
\* (id, s) that found a record, the cached status of id is s, status queries
\* completing or not.
C15_LatestUpdateWins ==
  (last.op = "updatePaymentStatus" /\ last.before # "")
    => StatusOf(payments, last.paymentId) = last.arg

\* C15, amended: the cached status of id is the one written last.
\* updatePaymentStatus(id, s) leaves it s; a status query for id that reads
\* the gateway's answer leaves it the status of that answer, also when an
\* updatePaymentStatus ran while the query was in flight; no other step
\* changes it.
C15_LastWriteWins ==
  [][\A id \in DOMAIN payments :
       IF UpdateOf(id) THEN payments'[id].status = last'.arg
       ELSE IF \E c \in Calls : StatusAnswered(c) /\ calls'[c].paymentId = id
       THEN \A c \in Calls :
              (StatusAnswered(c) /\ calls'[c].paymentId = id)
                => payments'[id].status = calls'[c].body.status
       ELSE payments'[id].status = payments[id].status]_vars

\* the webhook made the record paid, then a status query read another
\* status from the gateway and the cache has that one
C15_Witness ==
  \E c \in Answered :
    /\ last.op = "updatePaymentStatus"
    /\ last.paymentId = calls[c].paymentId
    /\ last.before # ""
    /\ last.arg = "paid"
    /\ calls[c].body.status = "pending"
    /\ StatusOf(payments, last.paymentId) = "pending"

\* C16 as claimed: only createPayment and updatePaymentStatus change the
\* payment cache or the listener registry.
C16_OnlyCreateAndUpdateWrite ==
  [][(payments' # payments \/ statusCallbacks' # statusCallbacks)
       => (UpdateStep \/ \E c \in Calls : CreateReturns(c))]_vars

\* C16, amended: the payment cache is changed only by createPayment (insert),
\* by updatePaymentStatus (status) and by a getPaymentStatus that reads the
\* gateway's answer (status); the listener registry only by onStatusUpdate;
\* the timers of startPaymentPolling and every other step leave both alone.
C16_WritersOfTheMaps ==
  [][/\ payments' # payments
          => \/ UpdateStep
             \/ \E c \in Calls : CreateReturns(c) \/ StatusAnswered(c)
     /\ statusCallbacks' # statusCallbacks
          => (last'.n = last.n + 1 /\ last'.op = "onStatusUpdate")
     /\ DOMAIN payments' # DOMAIN payments
          => \E c \in Calls : CreateReturns(c)]_vars

\* a status query made the record paid and a callback was registered,
\* with no updatePaymentStatus at all
C16_Witness ==
  \E c \in Answered :
    /\ last.n = 1
    /\ last.op = "onStatusUpdate"
    /\ statusCallbacks # EmptyMap
    /\ calls[c].result # NULL
    /\ StatusOf(payments, calls[c].paymentId) = "paid"

\* C17 as claimed: a cached status that is paid, failed or expired never
\* changes.
C17_TerminalIsFinal ==
  [][\A id \in DOMAIN payments :
       payments[id].status \in Terminal
         => payments'[id].status = payments[id].status]_vars

\* C17, amended: a terminal status is not protected.  updatePaymentStatus
\* (id, s) on a record whose status is terminal leaves it s, whatever s is;
\* besides that only a status query that reads the gateway's answer changes
\* a terminal status; the other fields of the record stay.
C17_TerminalOverwritten ==
  [][\A id \in DOMAIN payments :
       payments[id].status \in Terminal =>
         /\ UpdateOf(id) => payments'[id].status = last'.arg
         /\ payments'[id].status # payments[id].status
              => \/ UpdateOf(id)
                 \/ \E c \in Calls : StatusAnswered(c) /\ calls'[c].paymentId = id
         /\ \A f \in NonStatusFields : payments'[id][f] = payments[id][f]]_vars

\* a record that was paid was put back to pending by an update
C17_Witness ==
  /\ last.op = "updatePaymentStatus"
  /\ last.via = "webhook"
  /\ last.before = "paid"
  /\ last.arg = "pending"
  /\ StatusOf(payments, last.paymentId) = "pending"
\* C18 as claimed: the checkout of the page runs on the mock when no
\* credential is configured and on the real client otherwise, and the modal
\* uses the service the checkout uses.
C18_ChosenFromConfiguration ==
  /\ CheckoutImpl = ModalImpl
  /\ (\E c \in Calls : calls[c].from = "app")
       => impl = (IF apiKey THEN "real" ELSE "mock")

\* the 10 s timer of the payment id in the timers a: "none" if it was never set
TimerOf(a, id) == IF id \in DOMAIN a THEN a[id] ELSE "none"

\* C19: createPayment of the mock makes no fetch attempt and returns the
\* record it has just cached, with status pending and a non-empty Pix code,
\* and sets the 10 s timer of the payment; the timer fires once, and when it
\* does updatePaymentStatus(id, "paid") runs: the callback registered for the
\* id by then is invoked with paid and the cached status becomes paid; a
\* timer that has fired never fires again, and a timer that is pending fires.
C19_SimulatedApproval ==
  /\ [](impl = "mock" => \A c \in Calls : calls[c].attempts = 0)
  /\ [][impl = "mock" =>
          \A c \in Calls :
            CreateReturns(c)
            => /\ calls'[c].result.status = "pending"
               /\ calls'[c].result.pixCode # ""
               /\ calls'[c].result.id \notin DOMAIN payments
               /\ MapGet(payments', calls'[c].result.id) = calls'[c].result
               /\ TimerOf(approvals', calls'[c].result.id) = "pending"]_vars
  /\ [][\A id \in Ids :
          /\ TimerOf(approvals, id) = "fired"
             => /\ TimerOf(approvals', id) = "fired"
                /\ ~(UpdateOf(id) /\ last'.via = "timer")
          /\ (TimerOf(approvals, id) = "pending" /\ TimerOf(approvals', id) = "fired")
             => /\ UpdateOf(id)
                /\ last'.via = "timer"
                /\ last'.arg = "paid"
                /\ last'.called = Invoked(statusCallbacks, id)
                /\ statusCallbacks' = statusCallbacks
                /\ StatusOf(payments', id) = "paid"
          /\ (UpdateOf(id) /\ last'.via = "timer")
             => /\ TimerOf(approvals, id) = "pending"
                /\ TimerOf(approvals', id) = "fired"]_vars
  /\ \A id \in Ids :
       (TimerOf(approvals, id) = "pending") ~> (TimerOf(approvals, id) = "fired")

\* a listener registered while the timer was pending has been invoked with
\* paid by the timer, and the cached status is paid
C19_Witness ==
  /\ impl = "mock"
  /\ \E c \in CreateCalls : calls[c].pc = "returned" /\ calls[c].result.id = "p1"
  /\ approvals = [x \in {"p1"} |-> "fired"]
  /\ last.op = "updatePaymentStatus"
  /\ last.via = "timer"
  /\ last.paymentId = "p1"
  /\ last.called = << "f" >>
  /\ payments["p1"].status = "paid"

\* the modal is open on a payment it reads as pending, whose expiresAt is
\* reached
PendingAndDue ==
  /\ ui.isOpen
  /\ ui.paymentData # NULL
  /\ UiStatus(ui, payments) = "pending"
  /\ ui.due

\* C20: for an open modal on a pending payment whose expiresAt is reached,
\* updateTimer calls onPaymentUpdate('expired') unless the modal is closed,
\* the status changes or another payment is shown first; it does so once, only when expiresAt is reached,
\* the payment shown is then expired, and once React has rendered the
\* countdown interval is cleared.
C20_ExpiresOnce ==
  /\ [](ui.expiredCalls <= 1)
  /\ [](ui.expiredCalls = 1 /\ ~ui.dirty => ~ui.countdown)
  /\ [][ui'.expiredCalls = ui.expiredCalls + 1
          => /\ ui.due
             /\ ui.isOpen
             /\ ui'.paymentData.id = ui.paymentData.id
             /\ ui'.paymentData.status = "expired"
             /\ ui'.dirty]_vars
  /\ PendingAndDue ~> (ui.expiredCalls = 1 \/ ~PendingAndDue)

\* the interval of the modal has fired after expiresAt, the payment shown is
\* expired and the interval is cleared, while the service still polls
C20_Witness ==
  /\ ui.isOpen
  /\ ui.due
  /\ ui.expiredCalls = 1
  /\ ui.paymentData.status = "expired"
  /\ ~ui.dirty
  /\ ~ui.countdown
  /\ last.op = "onStatusUpdate" /\ last.arg = "modal"
  /\ \E l \in Loops : loops[l].id = ui.paymentData.id /\ loops[l].ticks = 1
  /\ payments[ui.paymentData.id].status = "pending"

\* C27: a further attempt is made only after an attempt that rejected (an
\* exception or the abort after 15 s); an attempt answered by an HTTP response
\* of any status is the last one: the response goes to the caller of
\* fetchWithRetry after the attempts made so far, all of which but the last
\* rejected.
C27_RetryOnlyOnTransportFailure ==
  /\ [](\A c \in Calls :
          calls[c].status # 0
          => /\ calls[c].attempts = calls[c].failures + 1
             /\ calls[c].pc \in {"body", "errorBody", "qr", "returned", "threw"})
  /\ [][\A c \in Calls :
          /\ (calls[c].pc = "fetch" /\ calls'[c].status # 0)
             => /\ calls'[c].attempts = calls[c].attempts
                /\ calls'[c].failures = calls[c].failures
                /\ calls'[c].pc \in {"body", "errorBody", "returned"}
          /\ (calls[c].status # 0)
             => /\ calls'[c].status = calls[c].status
                /\ calls'[c].attempts = calls[c].attempts
          /\ (calls[c].op # "none" /\ calls'[c].attempts = calls[c].attempts + 1)
             => /\ calls[c].pc = "delay"
                /\ calls[c].caught \in FetchFailures
                /\ calls[c].failures = calls[c].attempts]_vars

\* two attempts rejected, the third got a 500, and createPayment threw the
\* error of the status after three attempts
C27_Witness ==
  \E c \in CreateCalls :
    /\ calls[c].status = 500
    /\ calls[c].failures = 2
    /\ calls[c].attempts = 3
    /\ calls[c].pc = "threw"
    /\ ErrorKind(calls[c].error) = KindForStatus(500)

\* C28: a getPaymentStatus(id) that returns while id has no record returns
\* null, also when the query was answered, and adds no record; a polling loop
\* on an id that has no record makes no updatePaymentStatus, and its interval
\* is cleared by nothing but the 20 min timeout.
C28_UncachedIdPolledToCeiling ==
  /\ [][\A c \in Calls :
          (/\ calls'[c].op = "getPaymentStatus"
           /\ calls[c].pc # "returned"
           /\ calls'[c].pc = "returned"
           /\ calls'[c].paymentId \notin DOMAIN payments)
          => /\ calls'[c].result = NULL
             /\ payments' = payments]_vars
  /\ [][\A l \in Loops :
          (loops[l].interval = "set" /\ loops[l].id \notin DOMAIN payments)
          => /\ loops'[l].updates = loops[l].updates
             /\ (loops'[l].interval = "cleared"
                   => loops[l].ceiling = "pending" /\ loops'[l].ceiling = "fired")
             /\ (UpdateStep => last'.via # "poll" \/ last'.paymentId # loops[l].id)]_vars
  /\ [](\A l \in Loops : loops[l].updates > 0 => loops[l].id \in DOMAIN payments)

\* a loop on an id that never had a record made all its ticks, every query
\* was answered by the gateway and returned null, and the timeout stopped it
C28_Witness ==
  \E l \in Loops :
    /\ loops[l].id = "p1"
    /\ payments = EmptyMap
    /\ loops[l].ticks = MaxTicks
    /\ loops[l].first = "null"
    /\ loops[l].updates = 0
    /\ loops[l].interval = "cleared"
    /\ loops[l].ceiling = "fired"
    /\ \A c \in Calls :
         calls[c].op = "getPaymentStatus"
         => /\ calls[c].from = l
            /\ calls[c].pc = "returned"
            /\ calls[c].body # NULL
            /\ calls[c].body.status = "paid"
            /\ calls[c].result = NULL
    /\ \E c \in Calls : calls[c].op = "getPaymentStatus" /\ calls[c].tick = MaxTicks

\* C21 as claimed: the 10 s timer of a payment of the mock is cancelled when
\* the payment becomes failed or expired: the timer never fires on a record
\* whose status is failed or expired, so it never turns one into paid.
C21_TerminalCancelsApproval ==
  [][\A id \in Ids :
       (StatusOf(payments, id) \in {"failed", "expired"}
          /\ TimerOf(approvals, id) = "pending")
       => ~(UpdateOf(id) /\ last'.via = "timer")]_vars

\* the createPayment calls that returned a record
Created == {c \in CreateCalls : calls[c].pc = "returned"}

CheckoutCalls == {c \in CreateCalls : calls[c].from = "app"}
\* the sum of the line totals of the first k items
RECURSIVE LineTotalsUpTo(_, _)
LineTotalsUpTo(items, k) ==
  IF k = 0 THEN 0 ELSE LineTotalsUpTo(items, k - 1) + items[k].totalPrice
\* the tickets of which the cart has a unit
Selected(tc) == {t \in TicketTypes : tc[t] > 0}

\* C23: every createPayment issued by the checkout has an amount above zero
\* and a list of items that is not empty, in which every item has a quantity
\* above zero and a total of quantity times unit price, and the amount is the
\* sum of the totals; the items are the tickets the cart has a unit of at the
\* click, with their counts and prices, whatever clicks on + and - led to
\* that cart; and no count of the cart is ever below zero.
C23_CheckoutRequestWellFormed ==
  /\ [](\A c \in CheckoutCalls :
          LET r == calls[c].request IN
          /\ r.amount > 0
          /\ Len(r.tickets) > 0
          /\ \A k \in 1..Len(r.tickets) :
               /\ r.tickets[k].quantity > 0
               /\ r.tickets[k].totalPrice
                    = r.tickets[k].quantity * r.tickets[k].unitPrice
          /\ r.amount = LineTotalsUpTo(r.tickets, Len(r.tickets)))
  /\ [](\A t \in TicketTypes : ui.ticketCounts[t] >= 0)
  /\ [][\A c \in Calls :
          (calls[c].op = "none" /\ calls'[c].from = "app")
          => LET r == calls'[c].request
                 tc == ui.ticketCounts
             IN /\ Len(r.tickets) = Cardinality(Selected(tc))
                /\ \A t \in Selected(tc) :
                     \E k \in 1..Len(r.tickets) :
                       /\ r.tickets[k].type = ticketNames[t]
                       /\ r.tickets[k].quantity = tc[t]
                       /\ r.tickets[k].unitPrice = ticketPrices[t]]_vars

\* a checkout after three clicks with one ticket in the cart, so that one of
\* the clicks was on a - button, and the ticket of another type that was
\* taken out is not in the request
C23_Witness ==
  /\ used[7] = MaxClicks
  /\ \E c \in CheckoutCalls :
       /\ calls[c].request.amount = 130
       /\ Len(calls[c].request.tickets) = 1
       /\ calls[c].request.tickets[1].quantity = 1
       /\ calls[c].pc = "returned"
  /\ ui.ticketCounts = [NoTickets EXCEPT !["vipInteira"] = 1]

\* the modal shows the payment id before and after the step, with another
\* status after it
ShownStatusChanges(id) ==
  /\ ui.paymentData # NULL /\ ui.isOpen
  /\ ui'.paymentData # NULL /\ ui'.isOpen
  /\ ui.paymentData.id = id /\ ui'.paymentData.id = id
  /\ UiStatus(ui', payments') # UiStatus(ui, payments)

\* C24 as claimed: the status the modal shows for the payment id changes only
\* in a step that is a status update for id (updatePaymentStatus(id, .), or a
\* status query for id whose answer is merged into the cached record) or the
\* onPaymentUpdate('expired') of the expiry timer of the payment shown.
C24_OnlyOwnUpdates ==
  [][\A id \in Ids :
       ShownStatusChanges(id)
       => \/ UpdateOf(id)
          \/ ui'.expiredCalls = ui.expiredCalls + 1
          \/ StatusOf(payments', id) # StatusOf(payments, id)]_vars

\* the modal is open on a payment
Showing == ui.isOpen /\ ui.paymentData # NULL

\* C25 as claimed: whenever the modal shows a terminal status for a payment,
\* the record cached for the payment has that status; and while the modal
\* stays on a payment it shows as expired, it does not come to show it as
\* paid.
C25_ShownTerminalIsCached ==
  /\ [](Showing /\ UiStatus(ui, payments) \in Terminal
          => StatusOf(payments, ui.paymentData.id) = UiStatus(ui, payments))
  /\ [][(/\ Showing /\ UiStatus(ui, payments) = "expired"
         /\ ui'.isOpen /\ ui'.paymentData # NULL
         /\ ui'.paymentData.id = ui.paymentData.id)
        => UiStatus(ui', payments') # "paid"]_vars

\* the polling loops whose interval is running for the payment id
Running(id) == {l \in Loops : loops[l].interval = "set" /\ loops[l].id = id}

\* C26 as claimed: no payment has two polling loops running, and once the
\* page has closed the modal and React has run the effects no polling loop
\* the modal started is running.
C26_OneLoopPerPayment ==
  /\ \A id \in Ids : Cardinality(Running(id)) <= 1
  /\ (used[6] > 0 /\ ~ui.isOpen /\ ~ui.dirty) => \A id \in Ids : Running(id) = {}

====
